---- MODULE Spec2Model ----
(***************************************************************************)
(* praye.js: PrayerManager (src/src/prayer.ts) over the solar solver of    *)
(* src/src/astronomy.ts.                                                   *)
(*                                                                         *)
(* Numbers.  A time is an integer number of ticks, Hour ticks to the hour. *)
(* The numbers of a calculation method (degrees, minutes) are kept in      *)
(* tenths, so that 19.5 degrees is 195 and 90 minutes is 900.  Every input *)
(* time is a multiple of Grid, which makes each division of getTimes       *)
(* (night/2, night/7, angle/60 * night, timeDiff/2, value/60) exact.       *)
(* NaN is a value of its own that every arithmetic operation propagates    *)
(* and every comparison answers FALSE on.                                  *)
(***************************************************************************)
EXTENDS Integers, FiniteSets, Sequences, TLC

Grid == 2 * 7 * 600
Hour == 4 * Grid
Day == 24 * Hour
\* value/60 hours, for a value kept in tenths: value * Hour / 600 ticks
TenthMinute == Hour \div 600

\* ---------------------------------------------------------------- bounds
\* half day lengths offered by the sky: 2h, 4h, ... 2h * MaxDay
MaxDay == 3
\* change of the equation of time from one seed time to the next, in Grid
MaxDrift == 1

\* ------------------------------------------------------------ arithmetic
NaN == -(10 ^ 9)

Add(a, b) == IF a = NaN \/ b = NaN THEN NaN ELSE a + b
Sub(a, b) == IF a = NaN \/ b = NaN THEN NaN ELSE a - b
Div(a, n) == IF a = NaN THEN NaN ELSE a \div n
Gt(a, b) == a # NaN /\ b # NaN /\ a > b

\* JavaScript's a % b: the remainder has the sign of a
Rem(a, b) == IF a = NaN THEN NaN ELSE IF a >= 0 THEN a % b ELSE -((-a) % b)

\* a % b alone, a negative remainder left as it is
fixNoWrap(a, b) == Rem(a, b)

\* const fixed = a % b; return fixed < 0 ? fixed + b : fixed
fix(a, b) ==
    LET fixed == Rem(a, b)
    IN IF fixed # NaN /\ fixed < 0 THEN fixed + b ELSE fixed

fixHour(hour) == fix(hour, Day)

timeDiff(time1, time2) == fixHour(Sub(time2, time1))

\* ------------------------------------------------------------------- sky
(* What the trigonometry of sunPosition and sunAngleTime yields for one    *)
(* date and one place, as a table:                                         *)
(*   adjust   longitude / 15                                               *)
(*   eqt0, drift   the equation of time at seed time s is                  *)
(*            eqt0 + drift * (s \div 6)                                    *)
(*   horizon  riseSetAngle(altitude), in tenths of a degree                *)
(*   day      the hour angle of the sun at the horizon angle, NaN when the *)
(*            sun does not cross it (polar day or night)                   *)
(*   rate     ticks of hour angle per tenth of a degree of depression      *)
(*   limit    the largest depression (tenths) the sun reaches              *)
(***************************************************************************)
Skies ==
    [adjust : {-5 * Hour, 8 * Hour},
     eqt0 : {0, Day - Grid},
     drift : {d * Grid : d \in 0..MaxDrift},
     horizon : {8},
     day : {2 * k * Hour : k \in 1..MaxDay} \cup {NaN},
     rate : {250},
     limit : {500}]
    \cup
    [adjust : {-5 * Hour, 8 * Hour},
     eqt0 : {0},
     drift : {d * Grid : d \in 0..MaxDrift},
     horizon : {10},
     day : {2 * k * Hour : k \in 1..MaxDay},
     rate : {800},
     limit : {150}]

\* sunPosition(jd + seed/24)[1]
Eqt(sky, seed) == sky.eqt0 + sky.drift * (seed \div 6)

\* (1/15) * arccos((-sin(angle) - sin(decl) sin(lat)) / (cos(decl) cos(lat)))
HourAngle(sky, angle) ==
    IF sky.day = NaN \/ angle > sky.limit
    THEN NaN
    ELSE sky.day + (angle - sky.horizon) * sky.rate

midDay(sky, seed) == fixHour(12 * Hour - Eqt(sky, seed))

\* the two directions exchanged
sunAngleTimeFlipped(sky, angle, seed, ccw) ==
    LET t == HourAngle(sky, angle)
    IN Add(fixHour(12 * Hour - Eqt(sky, seed)), IF ccw THEN t ELSE Sub(0, t))

\* fixHour(12 - eqt) + (ccw ? -t : t)
sunAngleTime(sky, angle, seed, ccw) ==
    LET t == HourAngle(sky, angle)
    IN Add(fixHour(12 * Hour - Eqt(sky, seed)), IF ccw THEN Sub(0, t) ELSE t)

\* the hour angle of asr: arccot(factor + tan|lat - decl|) solved by sunAngleTime
AsrHourAngle(sky, factor) ==
    IF sky.day = NaN THEN NaN
    ELSE IF factor = 1 THEN sky.day \div 2 ELSE (3 * sky.day) \div 4

asrTime(sky, factor, seed) ==
    Add(fixHour(12 * Hour - Eqt(sky, seed)), AsrHourAngle(sky, factor))

\* ---------------------------------------------------- calculation methods
\* an optional field: <<>> when absent, <<v>> when present
Absent == <<>>
Some(v) == <<v>>

Angle(v) == [type |-> "angle", value |-> v]
Minute(v) == [type |-> "minute", value |-> v]

Standard == "standard"
Jafari == "jafari"
AsrStandard == 1
AsrHanafi == 2

\* a CalculationMethod literal with only fajr and isha given
Basic(fajr, isha) ==
    [imsak |-> Absent, fajr |-> fajr, dhuhr |-> Absent, asr |-> Absent,
     maghrib |-> Absent, isha |-> isha, midnight |-> Absent]

PresetNames == {"MWL", "ISNA", "Egypt", "Makkah", "Karachi", "Tehran", "Jafari", "MF"}

\* the object literal of getCalculationMethod, its own properties
PresetTable(isRamadan) ==
    [n \in PresetNames |->
        CASE n = "MWL" -> Basic(180, Angle(170))
          [] n = "ISNA" -> Basic(150, Angle(150))
          [] n = "Egypt" -> Basic(195, Angle(175))
          [] n = "Makkah" -> Basic(195, Minute(IF isRamadan THEN 1200 ELSE 900))
          [] n = "Karachi" -> Basic(180, Angle(180))
          [] n = "Tehran" ->
                [Basic(177, Angle(140)) EXCEPT
                    !.maghrib = Some(Angle(45)), !.midnight = Some(Jafari)]
          [] n = "Jafari" ->
                [Basic(160, Angle(140)) EXCEPT
                    !.maghrib = Some(Angle(40)), !.midnight = Some(Jafari)]
          [] n = "MF" -> Basic(120, Angle(120))]

\* property names every object literal inherits from Object.prototype
ObjectPrototypeNames == {"constructor", "toString"}
Inherited(name) == [inherited |-> name]

Undefined == <<>>

\* the default of the parameter isRamadan
IsRamadan(flag) == IF flag = Absent THEN FALSE ELSE flag[1]

\* the table without its isRamadan parameter
getCalculationMethodNoRamadan(method, flag) ==
    IF method \in PresetNames THEN Some(PresetTable(FALSE)[method])
    ELSE IF method \in ObjectPrototypeNames THEN Some(Inherited(method))
    ELSE Undefined

\* the property read {...}[method]: an own property, else one of the prototype
getCalculationMethod(method, flag) ==
    IF method \in PresetNames THEN Some(PresetTable(IsRamadan(flag))[method])
    ELSE IF method \in ObjectPrototypeNames THEN Some(Inherited(method))
    ELSE Undefined

\* The nested objects a manager can reach: those of the partial method the
\* caller passed (arg.*) and those createCalculationMethod makes (new.*).
Refs == {"arg.imsak", "arg.maghrib", "arg.isha", "new.imsak", "new.maghrib"}
Free == [type |-> "free", value |-> 0]

\* imsak defaulted to the default of maghrib
createCalculationMethodWrongDefault(method) ==
    [imsak |-> IF method.imsak = Absent THEN "new.maghrib" ELSE method.imsak[1],
     fajr |-> method.fajr,
     dhuhr |-> IF method.dhuhr = Absent THEN 0 ELSE method.dhuhr[1],
     asr |-> IF method.asr = Absent THEN AsrStandard ELSE method.asr[1],
     maghrib |-> IF method.maghrib = Absent THEN "new.maghrib" ELSE method.maghrib[1],
     isha |-> method.isha,
     midnight |-> IF method.midnight = Absent THEN Standard ELSE method.midnight[1]]

\* method is the caller's object: imsak, maghrib and isha hold references.
\* The two object literals of the defaults are the objects new.imsak, new.maghrib.
createCalculationMethod(method) ==
    [imsak |-> IF method.imsak = Absent THEN "new.imsak" ELSE method.imsak[1],
     fajr |-> method.fajr,
     dhuhr |-> IF method.dhuhr = Absent THEN 0 ELSE method.dhuhr[1],
     asr |-> IF method.asr = Absent THEN AsrStandard ELSE method.asr[1],
     maghrib |-> IF method.maghrib = Absent THEN "new.maghrib" ELSE method.maghrib[1],
     isha |-> method.isha,
     midnight |-> IF method.midnight = Absent THEN Standard ELSE method.midnight[1]]

NewObjects == [r \in {"new.imsak", "new.maghrib"} |->
                 IF r = "new.imsak" THEN Minute(100) ELSE Minute(0)]

\* the object the caller builds from a literal: nested objects by reference
Build(lit) ==
    [lit EXCEPT
        !.imsak = IF lit.imsak = Absent THEN Absent ELSE Some("arg.imsak"),
        !.maghrib = IF lit.maghrib = Absent THEN Absent ELSE Some("arg.maghrib"),
        !.isha = "arg.isha"]

BuildHeap(lit) ==
    [r \in Refs |->
        CASE r = "arg.imsak" -> IF lit.imsak = Absent THEN Free ELSE lit.imsak[1]
          [] r = "arg.maghrib" -> IF lit.maghrib = Absent THEN Free ELSE lit.maghrib[1]
          [] r = "arg.isha" -> lit.isha
          [] OTHER -> NewObjects[r]]

\* a method record with its references read through the heap
Resolve(m, h) ==
    [m EXCEPT !.imsak = h[m.imsak], !.maghrib = h[m.maghrib], !.isha = h[m.isha]]

\* ------------------------------------------------------- high latitudes
NoHighLat == "none"
HightLatMethods == {"NightMiddle", "AngleBased", "OneSeventh"}

nightPortion(hl, angle, night) ==
    CASE hl = "NightMiddle" -> Div(night, 2)
      [] hl = "AngleBased" -> Div(IF night = NaN THEN NaN ELSE angle * night, 600)
      [] hl = "OneSeventh" -> Div(night, 7)

\* the adjustment as section 4.7 of the specification words it
adjustHighlatTimeAsWorded(hl, time, base, angle, night, ccw) ==
    LET portion == nightPortion(hl, angle, night)
        diff == IF ccw THEN timeDiff(time, base) ELSE timeDiff(base, time)
    IN IF Gt(portion, diff)
       THEN IF ccw THEN Sub(base, portion) ELSE Add(base, portion)
       ELSE time

\* the test written as !(portion <= diff): a NaN diff keeps the NaN time
adjustHighlatTimeNaNKept(hl, time, base, angle, night, ccw) ==
    LET portion == nightPortion(hl, angle, night)
        diff == IF ccw THEN timeDiff(time, base) ELSE timeDiff(base, time)
    IN IF diff = NaN \/ Gt(portion, diff)
       THEN time
       ELSE IF ccw THEN Sub(base, portion) ELSE Add(base, portion)

\* if (portion > diff) return time; return base + (ccw ? -portion : portion)
adjustHighlatTime(hl, time, base, angle, night, ccw) ==
    LET portion == nightPortion(hl, angle, night)
        diff == IF ccw THEN timeDiff(time, base) ELSE timeDiff(base, time)
    IN IF Gt(portion, diff)
       THEN time
       ELSE IF ccw THEN Sub(base, portion) ELSE Add(base, portion)

\* ------------------------------------------------------------- getTimes
\* m is the stored method with its nested objects read.
\* The eight solver calls, each reduced by adjust.
rawTimes(m, sky) ==
    LET adjust == sky.adjust
    IN [imsak |-> Sub(sunAngleTime(sky, m.imsak.value, 5, TRUE), adjust),
        fajr |-> Sub(sunAngleTime(sky, m.fajr, 5, TRUE), adjust),
        sunrise |-> Sub(sunAngleTime(sky, sky.horizon, 6, TRUE), adjust),
        dhuhr |-> Add(Sub(midDay(sky, 12), adjust), m.dhuhr * TenthMinute),
        asr |-> Sub(asrTime(sky, m.asr, 13), adjust),
        sunset |-> Sub(sunAngleTime(sky, sky.horizon, 18, FALSE), adjust),
        maghrib |-> Sub(sunAngleTime(sky, m.maghrib.value, 18, FALSE), adjust),
        isha |-> Sub(sunAngleTime(sky, m.isha.value, 18, FALSE), adjust)]

\* every marker adjusted with the angle of isha
highLatOneAngle(t, m, hl) ==
    IF hl = NoHighLat THEN t
    ELSE
        LET nightTime == timeDiff(t.sunset, t.sunrise)
        IN [t EXCEPT
              !.imsak = adjustHighlatTime(hl, t.imsak, t.sunrise, m.isha.value, nightTime, TRUE),
              !.fajr = adjustHighlatTime(hl, t.fajr, t.sunrise, m.isha.value, nightTime, TRUE),
              !.maghrib = adjustHighlatTime(hl, t.maghrib, t.sunset, m.isha.value, nightTime, FALSE),
              !.isha = adjustHighlatTime(hl, t.isha, t.sunset, m.isha.value, nightTime, FALSE)]

\* if (this.hightLatMethod) { ... }
highLat(t, m, hl) ==
    IF hl = NoHighLat THEN t
    ELSE
        LET nightTime == timeDiff(t.sunset, t.sunrise)
        IN [t EXCEPT
              !.imsak = adjustHighlatTime(hl, t.imsak, t.sunrise, m.imsak.value, nightTime, TRUE),
              !.fajr = adjustHighlatTime(hl, t.fajr, t.sunrise, m.fajr, nightTime, TRUE),
              !.maghrib = adjustHighlatTime(hl, t.maghrib, t.sunset, m.maghrib.value, nightTime, FALSE),
              !.isha = adjustHighlatTime(hl, t.isha, t.sunset, m.isha.value, nightTime, FALSE)]

\* the offsets added instead of subtracted
minuteTypesAdded(t, m) ==
    LET imsak == IF m.imsak.type = "minute"
                 THEN Add(t.fajr, m.imsak.value * TenthMinute) ELSE t.imsak
        maghrib == IF m.maghrib.type = "minute"
                   THEN Add(t.sunset, m.maghrib.value * TenthMinute) ELSE t.maghrib
        isha == IF m.isha.type = "minute"
                THEN Add(maghrib, m.isha.value * TenthMinute) ELSE t.isha
    IN [t EXCEPT !.imsak = imsak, !.maghrib = maghrib, !.isha = isha]

\* the three minute-type overrides, in the order of the code
minuteTypes(t, m) ==
    LET imsak == IF m.imsak.type = "minute"
                 THEN Sub(t.fajr, m.imsak.value * TenthMinute) ELSE t.imsak
        maghrib == IF m.maghrib.type = "minute"
                   THEN Sub(t.sunset, m.maghrib.value * TenthMinute) ELSE t.maghrib
        isha == IF m.isha.type = "minute"
                THEN Sub(maghrib, m.isha.value * TenthMinute) ELSE t.isha
    IN [t EXCEPT !.imsak = imsak, !.maghrib = maghrib, !.isha = isha]

midnightOf(t, m) ==
    Add(t.sunset,
        Div(IF m.midnight = Standard
            THEN timeDiff(t.sunset, t.sunrise)
            ELSE timeDiff(t.sunset, t.fajr), 2))

getTimes(m, hl, sky) ==
    LET t == minuteTypes(highLat(rawTimes(m, sky), m, hl), m)
    IN [imsak |-> t.imsak, fajr |-> t.fajr, sunrise |-> t.sunrise, dhuhr |-> t.dhuhr,
        asr |-> t.asr, sunset |-> t.sunset, maghrib |-> t.maghrib, isha |-> t.isha,
        midnight |-> midnightOf(t, m)]

\* ---------------------------------------------------------------- state
VARIABLES
    method,          \* PrayerManager.#method: nested objects by reference
    hightLatMethod,  \* PrayerManager.hightLatMethod
    heap,            \* the nested objects, by reference
    arg,             \* the caller's object last passed to setCalculationMethod
    passed,          \* what that object held when it was passed
    held,            \* the caller holds what getCalculationMethod() returned
    op,              \* the last operation
    sky,             \* the date and place of the last getTimes call since the
                     \* configuration was last written (NoSky: no such call)
    times,           \* what that call returned
    lookup,          \* the last call of the static getCalculationMethod
    prevLookup,      \* the call before it
    adj              \* one call of adjustHighlatTime: arguments and result

vars == <<method, hightLatMethod, heap, arg, passed, held, op, sky, times,
          lookup, prevLookup, adj>>

manager == <<method, hightLatMethod, heap, arg, passed, held, op, sky, times>>

\* --------------------------------------------------------------- inputs
Custom1 ==
    [imsak |-> Some(Angle(200)), fajr |-> 180, dhuhr |-> Some(50),
     asr |-> Some(AsrHanafi), maghrib |-> Some(Minute(30)), isha |-> Minute(900),
     midnight |-> Some(Jafari)]
Custom2 ==
    [Basic(150, Angle(170)) EXCEPT
        !.imsak = Some(Minute(200)), !.dhuhr = Some(-6000), !.midnight = Some(Standard)]

Literals ==
    {getCalculationMethod(n, f)[1] : n \in PresetNames, f \in {Absent, Some(TRUE)}}
    \cup {Custom1, Custom2}

HighLatOptions == {NoHighLat} \cup HightLatMethods

NoSky == [adjust |-> 0, eqt0 |-> 0, drift |-> 0, horizon |-> 0, day |-> NaN,
          rate |-> 0, limit |-> 0]
Fields == {"imsak", "fajr", "sunrise", "dhuhr", "asr", "sunset", "maghrib",
           "isha", "midnight"}
NoTimes == [f \in Fields |-> NaN]

LookupNames == PresetNames \cup {"NotAMethod", "mwl", "constructor", "toString"}
Flags == {Absent, Some(FALSE), Some(TRUE)}
NoLookup == [name |-> "", flag |-> Absent, result |-> Undefined]

NoAdj == [hl |-> "NightMiddle", time |-> 0, base |-> 0, angle |-> 0, night |-> 0,
          ccw |-> TRUE, done |-> FALSE, result |-> 0]
AdjInputs ==
    [hl : HightLatMethods,
     time : {NaN, -2 * Hour, 3 * Hour, 4 * Hour, 5 * Hour, 20 * Hour, 22 * Hour, 26 * Hour},
     base : {-1 * Hour, 6 * Hour, 18 * Hour},
     angle : {0, 150, 195},
     night : {0, 7 * Hour, 8 * Hour, 14 * Hour},
     ccw : BOOLEAN,
     done : {FALSE},
     result : {0}]

\* ----------------------------------------------------------------- Init
\* new PrayerManager(lit, hl): the constructor calls setCalculationMethod
Constructed(lit, hl) ==
    /\ arg = Build(lit)
    /\ heap = BuildHeap(lit)
    /\ method = createCalculationMethod(Build(lit))
    /\ passed = lit
    /\ hightLatMethod = hl
    /\ held = FALSE
    /\ op = "constructor"
    /\ sky = NoSky
    /\ times = NoTimes

Init ==
    /\ \E lit \in Literals, hl \in HighLatOptions : Constructed(lit, hl)
    /\ lookup = NoLookup
    /\ prevLookup = NoLookup
    /\ adj = NoAdj

\* -------------------------------------------------------------- actions
SetCalculationMethod(lit) ==
    /\ arg' = Build(lit)
    /\ heap' = BuildHeap(lit)
    /\ method' = createCalculationMethod(Build(lit))
    /\ passed' = lit
    /\ held' = FALSE
    /\ op' = "setCalculationMethod"
    /\ sky' = NoSky
    /\ times' = NoTimes
    /\ UNCHANGED <<hightLatMethod, lookup, prevLookup, adj>>

\* return this.#method: the caller gets the stored record itself
GetCalculationMethod ==
    /\ held' = TRUE
    /\ op' = "getCalculationMethod"
    /\ UNCHANGED <<method, hightLatMethod, heap, arg, passed, sky, times,
                   lookup, prevLookup, adj>>

\* hightLatMethod is a public field
SetHightLatMethod(hl) ==
    /\ hightLatMethod' = hl
    /\ op' = "hightLatMethod"
    /\ sky' = NoSky
    /\ times' = NoTimes
    /\ UNCHANGED <<method, heap, arg, passed, held, lookup, prevLookup, adj>>

GetTimes(s) ==
    /\ times' = getTimes(Resolve(method, heap), hightLatMethod, s)
    /\ sky' = s
    /\ op' = "getTimes"
    /\ UNCHANGED <<method, hightLatMethod, heap, arg, passed, held, lookup, prevLookup, adj>>

Next ==
    \/ \E lit \in Literals : SetCalculationMethod(lit)
    \/ GetCalculationMethod
    \/ \E hl \in HighLatOptions : SetHightLatMethod(hl)
    \/ \E s \in Skies : GetTimes(s)

Spec == Init /\ [][Next]_vars

\* ------------------------------------------- the caller's own assignments
MutationValues == {Angle(150), Minute(600)}
AliasLiterals == {getCalculationMethod("MWL", Absent)[1], Custom1}
AliasSkies == {s \in Skies : s.adjust = -5 * Hour /\ s.drift = 0 /\ s.eqt0 = 0
                               /\ s.day = 4 * Hour}

Mutated ==
    /\ op' = "assignment"
    /\ sky' = NoSky
    /\ times' = NoTimes
    /\ UNCHANGED <<hightLatMethod, passed, held, lookup, prevLookup, adj>>

\* m = manager.getCalculationMethod(); m.fajr = v  or  m.midnight = v
AssignReturnedField ==
    /\ held
    /\ \/ \E v \in {120, 180} : method' = [method EXCEPT !.fajr = v]
       \/ \E v \in {Standard, Jafari} : method' = [method EXCEPT !.midnight = v]
    /\ Mutated
    /\ UNCHANGED <<heap, arg>>

\* m.isha.value = v, m.isha.type = t, and so for imsak and maghrib
AssignReturnedNested ==
    /\ held
    /\ \E f \in {"imsak", "maghrib", "isha"}, v \in MutationValues :
          heap' = [heap EXCEPT ![method[f]] = v]
    /\ Mutated
    /\ UNCHANGED <<method, arg>>

\* partial.fajr = v on the object passed earlier
AssignArgField ==
    /\ \E v \in {120, 180} : arg' = [arg EXCEPT !.fajr = v]
    /\ Mutated
    /\ UNCHANGED <<method, heap>>

\* partial.isha.value = v, partial.isha.type = t, and so for imsak and maghrib
AssignArgNested ==
    /\ \E r \in {"arg.imsak", "arg.maghrib", "arg.isha"}, v \in MutationValues :
          /\ heap[r] # Free
          /\ heap' = [heap EXCEPT ![r] = v]
    /\ Mutated
    /\ UNCHANGED <<method, arg>>

InitAlias ==
    /\ \E lit \in AliasLiterals, hl \in {NoHighLat, "AngleBased"} : Constructed(lit, hl)
    /\ lookup = NoLookup
    /\ prevLookup = NoLookup
    /\ adj = NoAdj

NextAlias ==
    \/ \E lit \in AliasLiterals : SetCalculationMethod(lit)
    \/ GetCalculationMethod
    \/ \E s \in AliasSkies : GetTimes(s)
    \/ AssignReturnedField
    \/ AssignReturnedNested
    \/ AssignArgField
    \/ AssignArgNested

SpecAlias == InitAlias /\ [][NextAlias]_vars

\* ------------------------------------------------- the static preset lookup
GetPreset(name, flag) ==
    /\ lookup' = [name |-> name, flag |-> flag, result |-> getCalculationMethod(name, flag)]
    /\ prevLookup' = lookup
    /\ UNCHANGED manager
    /\ UNCHANGED adj

InitLookup ==
    /\ Constructed(getCalculationMethod("MWL", Absent)[1], NoHighLat)
    /\ lookup = NoLookup
    /\ prevLookup = NoLookup
    /\ adj = NoAdj

NextLookup == \E name \in LookupNames, flag \in Flags : GetPreset(name, flag)

SpecLookup == InitLookup /\ [][NextLookup]_vars

\* ------------------------------------------------ adjustHighlatTime alone
Adjust ==
    /\ ~adj.done
    /\ adj' = [adj EXCEPT
                 !.done = TRUE,
                 !.result = adjustHighlatTime(adj.hl, adj.time, adj.base, adj.angle,
                                              adj.night, adj.ccw)]
    /\ UNCHANGED manager
    /\ UNCHANGED <<lookup, prevLookup>>

InitHighLat ==
    /\ Constructed(getCalculationMethod("MWL", Absent)[1], NoHighLat)
    /\ lookup = NoLookup
    /\ prevLookup = NoLookup
    /\ adj \in AdjInputs

NextHighLat == Adjust

SpecHighLat == InitHighLat /\ [][NextHighLat]_vars

\* ================================================================ claims
\* the stored method as getTimes reads it
Config == Resolve(method, heap)

\* the forward difference from a to b on the 24 hour circle, for numbers
Forward(a, b) == (b - a) % Day

\* the fajr the solver gave, before any high-latitude step
RawFajr == rawTimes(Config, sky).fajr
RawIsha == rawTimes(Config, sky).isha

\* C1: in every getTimes result a minute-type imsak is the returned fajr less
\* imsak.value/60, a minute-type maghrib is sunset less maghrib.value/60 and a
\* minute-type isha is the returned maghrib less isha.value/60 (NaN when the
\* anchor is NaN), with or without a high-latitude method.
C1_MinuteOffsets ==
    op = "getTimes" =>
        /\ Config.imsak.type = "minute" =>
              times.imsak = IF times.fajr = NaN THEN NaN
                            ELSE times.fajr - Config.imsak.value * TenthMinute
        /\ Config.maghrib.type = "minute" =>
              times.maghrib = IF times.sunset = NaN THEN NaN
                              ELSE times.sunset - Config.maghrib.value * TenthMinute
        /\ Config.isha.type = "minute" =>
              times.isha = IF times.maghrib = NaN THEN NaN
                           ELSE times.maghrib - Config.isha.value * TenthMinute

\* a default method (imsak {minute,10}, maghrib {minute,0}) whose fajr the
\* high-latitude step moved
C1_Witness ==
    /\ op = "getTimes"
    /\ hightLatMethod # NoHighLat
    /\ Config.imsak = Minute(100)
    /\ Config.maghrib = Minute(0)
    /\ times.fajr # NaN
    /\ times.fajr # RawFajr
    /\ times.imsak = times.fajr - (10 * Hour) \div 60
    /\ times.maghrib = times.sunset

\* C2 as claimed: the time is replaced by anchor -/+ portion exactly when the
\* portion exceeds diff, and is the original time whenever portion <= diff.
AdjPortion == nightPortion(adj.hl, adj.angle, adj.night)
AdjDiff == IF adj.ccw THEN timeDiff(adj.time, adj.base) ELSE timeDiff(adj.base, adj.time)
AdjReplaced == IF adj.ccw THEN Sub(adj.base, AdjPortion) ELSE Add(adj.base, AdjPortion)

C2_AsClaimed ==
    adj.done =>
        /\ Gt(AdjPortion, AdjDiff) => adj.result = AdjReplaced
        /\ (AdjPortion # NaN /\ AdjDiff # NaN /\ AdjPortion <= AdjDiff) =>
              adj.result = adj.time

\* C2 amended: adjustHighlatTime returns the original time exactly when the
\* portion exceeds diff; whenever portion <= diff, the boundary included, and
\* whenever diff is NaN, it returns anchor - portion (dawn side) or
\* anchor + portion (dusk side).
C2_HighLatAdjust ==
    adj.done =>
        /\ Gt(AdjPortion, AdjDiff) => adj.result = adj.time
        /\ ~Gt(AdjPortion, AdjDiff) => adj.result = AdjReplaced
        /\ (adj.time # NaN /\ AdjPortion = AdjDiff) =>
              (adj.result - adj.time) % Day = 0

\* the boundary portion = diff on the dawn side, and a replaced time
C2_Witness ==
    /\ adj.done
    /\ adj.ccw
    /\ adj.time # NaN
    /\ AdjPortion = AdjDiff
    /\ AdjPortion > 0
    /\ adj.result = adj.base - AdjPortion

\* C3: with date, place, high-latitude method, fajr, dhuhr, asr and midnight
\* fixed, another imsak, maghrib or isha leaves sunrise, dhuhr, asr, sunset and
\* fajr as they are; another imsak changes at most imsak, another isha at most
\* isha, another maghrib at most maghrib and, when isha is minute-type, isha.
Variants == {Angle(150), Angle(195), Minute(0), Minute(100), Minute(900)}
Same(r, fields) == \A f \in fields : r[f] = times[f]

C3_Frame ==
    op = "getTimes" =>
        /\ \A a, b, c \in Variants :
              Same(getTimes([Config EXCEPT !.imsak = a, !.maghrib = b, !.isha = c],
                            hightLatMethod, sky),
                   {"sunrise", "dhuhr", "asr", "sunset", "fajr"})
        /\ \A v \in Variants :
              /\ Same(getTimes([Config EXCEPT !.imsak = v], hightLatMethod, sky),
                      Fields \ {"imsak"})
              /\ Same(getTimes([Config EXCEPT !.isha = v], hightLatMethod, sky),
                      Fields \ {"isha"})
              /\ Same(getTimes([Config EXCEPT !.maghrib = v], hightLatMethod, sky),
                      Fields \ ({"maghrib"} \cup
                                IF Config.isha.type = "minute" THEN {"isha"} ELSE {}))

\* a change of maghrib that moves the minute-type isha with it, under a
\* high-latitude method
C3_Witness ==
    /\ op = "getTimes"
    /\ hightLatMethod = "AngleBased"
    /\ Config.isha.type = "minute"
    /\ times.sunset # NaN
    /\ \E v \in Variants :
          LET r == getTimes([Config EXCEPT !.maghrib = v], hightLatMethod, sky)
          IN r.maghrib # times.maghrib /\ r.isha # times.isha

\* C4: the stored method is the partial method last passed to the constructor
\* or to setCalculationMethod with the defaults imsak {minute,10}, dhuhr 0, asr
\* Standard, maghrib {minute,0}, midnight Standard, all seven fields defined;
\* getTimes and getCalculationMethod change neither the stored method nor the
\* high-latitude method, and a getTimes call repeated for the same date and
\* place with no configuration change returns the same times.
StoredIsDefaulted ==
    /\ Config.imsak = (IF passed.imsak = Absent THEN Minute(100) ELSE passed.imsak[1])
    /\ Config.fajr = passed.fajr
    /\ Config.dhuhr = (IF passed.dhuhr = Absent THEN 0 ELSE passed.dhuhr[1])
    /\ Config.asr = (IF passed.asr = Absent THEN 1 ELSE passed.asr[1])
    /\ Config.maghrib = (IF passed.maghrib = Absent THEN Minute(0) ELSE passed.maghrib[1])
    /\ Config.isha = passed.isha
    /\ Config.midnight = (IF passed.midnight = Absent THEN "standard" ELSE passed.midnight[1])
    /\ {Config.imsak, Config.maghrib, Config.isha} \subseteq
           [type : {"angle", "minute"}, value : Int]
    /\ Config.fajr \in Int /\ Config.dhuhr \in Int
    /\ Config.asr \in {1, 2}
    /\ Config.midnight \in {"standard", "jafari"}

ReadsOnly ==
    op' \in {"getTimes", "getCalculationMethod"} =>
        /\ Config' = Config
        /\ hightLatMethod' = hightLatMethod
        /\ (op' = "getTimes" /\ sky # NoSky /\ sky' = sky) => times' = times

C4_StoredMethod == []StoredIsDefaulted /\ [][ReadsOnly]_vars

\* a partial method with a maghrib and a midnight of its own and no imsak (the
\* Tehran or the Jafari preset), defaulted and read by getTimes
C4_Witness ==
    /\ op = "getTimes"
    /\ passed.imsak = Absent
    /\ passed.maghrib # Absent
    /\ passed # Custom1
    /\ Config.imsak = Minute(100)
    /\ times.sunset # NaN

\* C5 as claimed: the configuration getTimes reads changes only through
\* setCalculationMethod (and the constructor): no assignment of the caller to
\* the record getCalculationMethod() returned, to the partial method it passed,
\* or to their nested imsak, maghrib and isha objects changes it.
C5_OnlySetterWrites ==
    [][op' # "setCalculationMethod" => Config' = Config]_vars

\* C6: midnight = sunset + timeDiff(sunset, X)/2, X the returned sunrise
\* (Standard) or the returned fajr (Jafari), whenever sunset and X are numbers;
\* hence sunset <= midnight < sunset + 12 h.
MidnightRef == IF Config.midnight = "standard" THEN times.sunrise ELSE times.fajr

C6_Midnight ==
    (op = "getTimes" /\ times.sunset # NaN /\ MidnightRef # NaN) =>
        /\ times.midnight # NaN
        /\ 2 * (times.midnight - times.sunset) = Forward(times.sunset, MidnightRef)
        /\ times.sunset <= times.midnight
        /\ times.midnight < times.sunset + 12 * Hour

\* the Jafari midnight from a fajr the high-latitude step moved
C6_Witness ==
    /\ op = "getTimes"
    /\ Config.midnight = "jafari"
    /\ hightLatMethod # NoHighLat
    /\ times.fajr # NaN
    /\ times.fajr # RawFajr
    /\ times.fajr < times.sunset
    /\ times.midnight > times.sunset

\* C7 as claimed: for every non-polar date and place, sunrise < dhuhr < sunset.
NonPolar == op = "getTimes" /\ times.sunrise # NaN /\ times.sunset # NaN

C7_AsClaimed == NonPolar => (times.sunrise < times.dhuhr /\ times.dhuhr < times.sunset)

\* C7 amended: for every non-polar date and place whose sunrise and sunset hour
\* angle exceeds the change of solar noon between the seed times, with or
\* without a high-latitude method, sunrise < dhuhr - method.dhuhr/60 < sunset:
\* the order holds for solar noon, and so for dhuhr when the dhuhr offset is 0.
Abs(x) == IF x < 0 THEN -x ELSE x
SteadyNoon ==
    /\ sky.day > Abs(midDay(sky, 12) - midDay(sky, 6))
    /\ sky.day > Abs(midDay(sky, 18) - midDay(sky, 12))

C7_SolarOrder ==
    (NonPolar /\ SteadyNoon) =>
        /\ times.sunrise < times.dhuhr - Config.dhuhr * TenthMinute
        /\ times.dhuhr - Config.dhuhr * TenthMinute < times.sunset
        /\ Config.dhuhr = 0 => (times.sunrise < times.dhuhr /\ times.dhuhr < times.sunset)

\* a default dhuhr offset under a high-latitude method, the equation of time
\* drifting between the seeds
C7_Witness ==
    /\ NonPolar
    /\ SteadyNoon
    /\ sky.drift > 0
    /\ hightLatMethod # NoHighLat
    /\ Config.dhuhr = 0
    /\ times.sunrise < times.dhuhr
    /\ times.dhuhr < times.sunset

\* C8: the Makkah preset has isha 90 minutes when isRamadan is false or
\* omitted and 120 minutes when it is true, every other field the same in two
\* calls; every other preset is the same in two calls whatever isRamadan is.
Called == lookup.name # ""
Ramadan(l) == l.flag = <<TRUE>>

C8_Ramadan ==
    /\ (Called /\ lookup.name = "Makkah") =>
          /\ lookup.result # Undefined
          /\ lookup.result[1].isha.type = "minute"
          /\ lookup.result[1].isha.value = IF Ramadan(lookup) THEN 1200 ELSE 900
    /\ (lookup.name \in PresetNames /\ prevLookup.name = lookup.name) =>
          IF lookup.name = "Makkah"
          THEN [lookup.result[1] EXCEPT !.isha.value = 0]
                  = [prevLookup.result[1] EXCEPT !.isha.value = 0]
          ELSE lookup.result = prevLookup.result

\* Makkah looked up in Ramadan after Makkah looked up with the flag omitted
C8_Witness ==
    /\ lookup.name = "Makkah" /\ prevLookup.name = "Makkah"
    /\ lookup.flag = <<TRUE>> /\ prevLookup.flag = <<>>
    /\ lookup.result[1].isha.value = 1200
    /\ prevLookup.result[1].isha.value = 900

\* C9 as claimed: each of the eight names yields a method with fajr and isha,
\* every other name yields undefined.
C9_UnknownIsUndefined ==
    Called =>
        IF lookup.name \in PresetNames
        THEN /\ lookup.result # Undefined
             /\ lookup.result[1].fajr \in Int
             /\ lookup.result[1].isha.type \in {"angle", "minute"}
        ELSE lookup.result = Undefined

\* C10: with a high-latitude method, sunrise and sunset numbers and a night
\* fraction strictly between 0 and 1, fajr is a number at most portion before
\* sunrise and an angle-type isha is a number at most portion after sunset,
\* portion = fraction * timeDiff(sunset, sunrise), also when the solver gave NaN.
NightTime == Forward(times.sunset, times.sunrise)
\* d <= fraction * NightTime, the fraction that of the method for this angle
WithinPortion(d, angle) ==
    CASE hightLatMethod = "NightMiddle" -> 2 * d <= NightTime
      [] hightLatMethod = "OneSeventh" -> 7 * d <= NightTime
      [] hightLatMethod = "AngleBased" -> 600 * d <= angle * NightTime
ProperFraction(angle) == hightLatMethod = "AngleBased" => (0 < angle /\ angle < 600)

C10_Clamped ==
    (op = "getTimes" /\ hightLatMethod # NoHighLat
        /\ times.sunrise # NaN /\ times.sunset # NaN) =>
        /\ ProperFraction(Config.fajr) =>
              /\ times.fajr # NaN
              /\ WithinPortion(Forward(times.fajr, times.sunrise), Config.fajr)
        /\ (Config.isha.type = "angle" /\ ProperFraction(Config.isha.value)) =>
              /\ times.isha # NaN
              /\ WithinPortion(Forward(times.sunset, times.isha), Config.isha.value)

\* the sun never reaches the fajr or the isha angle, and both times are numbers
C10_Witness ==
    /\ op = "getTimes"
    /\ hightLatMethod # NoHighLat
    /\ times.sunrise # NaN
    /\ RawFajr = NaN
    /\ RawIsha = NaN
    /\ Config.isha.type = "angle"
    /\ times.fajr # NaN
    /\ times.isha # NaN

====
